---- MODULE Spec2Model ----
(***************************************************************************)
(* MapClient: the map view with the "Localizar-me" button and the list of  *)
(* places ordered by distance from the user (src/unnamed/part_000).        *)
(*                                                                         *)
(* Numbers.  The component computes with IEEE doubles; here every real is  *)
(* a fixed-point integer.  Angles are whole degrees (coordinates are even  *)
(* degrees, so the half-differences of the haversine are whole degrees),   *)
(* sines and cosines are read from a table of sin(k degrees) * 10^4        *)
(* truncated, and a distance is a whole number of km.  An optional value   *)
(* (distancia?: number, userPos | null) is a sequence of length 0 or 1.    *)
(***************************************************************************)
EXTENDS Integers, Sequences, FiniteSets, TLC

\* Longest static dataset that Init draws.
MaxPlaces == 3

\* Cap on the number of getCurrentPosition calls whose callback has not run.
MaxPending == 2

\* const R = 6371 (Earth radius, km)
R == 6371

\* Fixed-point unit of the trigonometric tables.
S == 100 * 100

\* sin(k degrees) * S, truncated, k = 0..90 at index k + 1.
SinTable ==
   << 0, 174, 348, 523, 697, 871, 1045, 1218, 1391, 1564,
      1736, 1908, 2079, 2249, 2419, 2588, 2756, 2923, 3090, 3255,
      3420, 3583, 3746, 3907, 4067, 4226, 4383, 4539, 4694, 4848,
      5000, 5150, 5299, 5446, 5591, 5735, 5877, 6018, 6156, 6293,
      6427, 6560, 6691, 6819, 6946, 7071, 7193, 7313, 7431, 7547,
      7660, 7771, 7880, 7986, 8090, 8191, 8290, 8386, 8480, 8571,
      8660, 8746, 8829, 8910, 8987, 9063, 9135, 9205, 9271, 9335,
      9396, 9455, 9510, 9563, 9612, 9659, 9702, 9743, 9781, 9816,
      9848, 9876, 9902, 9925, 9945, 9961, 9975, 9986, 9993, 9998,
      10000 >>

Abs(x) == IF x < 0 THEN 0 - x ELSE x

\* Math.sin of an angle of d degrees, -180 <= d <= 180.
Sin(d) ==
    LET m == Abs(d)
        v == IF m <= 90 THEN SinTable[m + 1] ELSE SinTable[(180 - m) + 1]
    IN  IF d < 0 THEN 0 - v ELSE v

\* Math.cos of an angle of d degrees, -90 <= d <= 90.
Cos(d) == SinTable[(90 - Abs(d)) + 1]

RECURSIVE SqrtBetween(_, _, _)
SqrtBetween(n, lo, hi) ==
    IF lo >= hi THEN lo
    ELSE LET mid == (lo + hi + 1) \div 2
         IN  IF mid * mid <= n THEN SqrtBetween(n, mid, hi)
             ELSE SqrtBetween(n, lo, mid - 1)

\* Math.sqrt of n / S^2, as a multiple of 1 / S (0 <= n <= S^2).
Sqrt(n) == SqrtBetween(n, 0, S)

\* Math.atan2(y, x) for y, x >= 0 not both 0, in whole degrees 0..90: the
\* largest k with tan(k degrees) <= y / x.
RECURSIVE AtanBetween(_, _, _, _)
AtanBetween(y, x, lo, hi) ==
    IF lo >= hi THEN lo
    ELSE LET mid == (lo + hi + 1) \div 2
         IN  IF Sin(mid) * x <= Cos(mid) * y THEN AtanBetween(y, x, mid, hi)
             ELSE AtanBetween(y, x, lo, mid - 1)

Atan2(y, x) == AtanBetween(y, x, 0, 90)

\* A variant of distanceKm that takes the latitude sum for the latitude
\* difference.
distanceKmLatSum(lat1, lon1, lat2, lon2) ==
    LET dLat == lat2 + lat1
        dLon == lon2 - lon1
        a == Sin(dLat \div 2) * Sin(dLat \div 2)
             + ((Cos(lat1) * Cos(lat2)) \div S)
               * ((Sin(dLon \div 2) * Sin(dLon \div 2)) \div S)
        c == 2 * Atan2(Sqrt(a), Sqrt(S * S - a))
    IN  (R * ((c * 31416) \div 1800)) \div 1000

\* distanceKm(lat1, lon1, lat2, lon2): the haversine distance in km.
\* a is kept as a multiple of 1 / S^2, c in degrees, and R * c converts c to
\* milliradians (c * pi / 180 * 1000) before multiplying.
distanceKm(lat1, lon1, lat2, lon2) ==
    LET dLat == lat2 - lat1
        dLon == lon2 - lon1
        a == Sin(dLat \div 2) * Sin(dLat \div 2)
             + ((Cos(lat1) * Cos(lat2)) \div S)
               * ((Sin(dLon \div 2) * Sin(dLon \div 2)) \div S)
        c == 2 * Atan2(Sqrt(a), Sqrt(S * S - a))
    IN  (R * ((c * 31416) \div 1800)) \div 1000

----------------------------------------------------------------------------
\* Coordinates (lat, lng), in even degrees, of the places of the dataset and
\* of the positions the geolocation capability returns.
Coords == { <<0 - 10, 0 - 40>>, <<0, 0 - 40>>, <<10, 0 - 40>>, <<0, 0 - 20>> }

\* type Local: nome, lat, lng and the optional distancia (absent: << >>).
Local(nome, lat, lng, distancia) ==
    [nome |-> nome, lat |-> lat, lng |-> lng, distancia |-> distancia]

\* The contents locais.json can have: 1..MaxPlaces places, the i-th named i,
\* none carrying a distancia.
Datasets ==
    UNION { { [i \in 1..n |-> Local(i, cs[i][1], cs[i][2], << >>)] :
                cs \in [1..n -> Coords] } : n \in 1..MaxPlaces }

\* l.distancia ?? 0
Coalesce(distancia) == IF distancia = << >> THEN 0 ELSE distancia[1]

\* The comparator of novosLocais.sort: (a.distancia ?? 0) - (b.distancia ?? 0)
Compare(a, b) == Coalesce(a.distancia) - Coalesce(b.distancia)

\* x put into the sorted sequence s after every element that does not compare
\* greater than it.
RECURSIVE Insert(_, _)
Insert(x, s) ==
    IF s = << >> THEN << x >>
    ELSE IF Compare(s[Len(s)], x) <= 0 THEN Append(s, x)
    ELSE Append(Insert(x, SubSeq(s, 1, Len(s) - 1)), s[Len(s)])

\* A sort that loses the elements comparing equal to an earlier one.
RECURSIVE SortDroppingTies(_)
SortDroppingTies(s) ==
    IF s = << >> THEN << >>
    ELSE LET front == SortDroppingTies(SubSeq(s, 1, Len(s) - 1))
             x == s[Len(s)]
         IN  IF \E i \in 1..Len(front) : Compare(front[i], x) = 0
             THEN front ELSE Insert(x, front)

\* A sort whose comparator is reversed: (b.distancia ?? 0) - (a.distancia ?? 0).
RECURSIVE SortDescending(_)
SortDescending(s) ==
    IF Len(s) <= 1 THEN s
    ELSE LET front == SortDescending(SubSeq(s, 1, Len(s) - 1))
             x == s[Len(s)]
             k == Cardinality({i \in 1..Len(front) : Compare(x, front[i]) <= 0})
         IN  SubSeq(front, 1, k) \o << x >> \o SubSeq(front, k + 1, Len(front))

\* Array.prototype.sort with the comparator Compare: ascending and stable.
RECURSIVE Sort(_)
Sort(s) ==
    IF s = << >> THEN << >>
    ELSE Insert(s[Len(s)], Sort(SubSeq(s, 1, Len(s) - 1)))

\* distanceKm over the coordinates of the model, computed once.
DistanceTable ==
    [p \in Coords \X Coords |-> distanceKm(p[1][1], p[1][2], p[2][1], p[2][2])]

\* locaisData.map((l) => ({ ...l, distancia: distanceKm(latitude, longitude,
\* l.lat, l.lng) })): a new array of new objects.
MapDistancia(data, latitude, longitude) ==
    [i \in 1..Len(data) |->
        [data[i] EXCEPT !.distancia =
            << DistanceTable[<< <<latitude, longitude>>,
                                <<data[i].lat, data[i].lng>> >>] >>]]

\* A ranking that annotates and sorts the dataset array itself.
RankInPlace(data, latitude, longitude) ==
    [novosLocais |-> Sort(MapDistancia(data, latitude, longitude)),
     locaisData |-> Sort(MapDistancia(data, latitude, longitude))]

\* The ranking of the success callback: what it hands to setLocais and what it
\* leaves in locaisData (map copies, sort works on the copy).
Rank(data, latitude, longitude) ==
    [novosLocais |-> Sort(MapDistancia(data, latitude, longitude)),
     locaisData |-> data]

----------------------------------------------------------------------------
VARIABLES
    locaisData,      \* the imported static dataset
    locais,          \* useState: the list shown
    userPos,         \* useState: << >> (null) or << [lat, lng] >>
    loading,         \* useState
    Lref,            \* useRef: "null" or "leaflet"
    mapInstanceRef,  \* useRef: "null" or "map"
    geolocation,     \* whether navigator.geolocation exists
    pending,         \* getCurrentPosition calls whose callback has not run
    alertOpen,       \* the text of the alert() now blocking the page, or ""
    handler          \* the handler that ran last

vars == << locaisData, locais, userPos, loading, Lref, mapInstanceRef,
           geolocation, pending, alertOpen, handler >>

UnsupportedMsg == "Seu navegador nao suporta geolocalizacao."
ErrorMsg == "Nao foi possivel obter sua localizacao"

\* The component as first rendered: locais is the dataset, nothing requested.
Init ==
    /\ locaisData \in Datasets
    /\ locais = locaisData
    /\ userPos = << >>
    /\ loading = FALSE
    /\ Lref = "null"
    /\ mapInstanceRef = "null"
    /\ geolocation \in BOOLEAN
    /\ pending = 0
    /\ alertOpen = ""
    /\ handler = "mount"

\* The async body of useEffect, run once import('leaflet') has resolved: it
\* sets Lref and mapInstanceRef and draws the markers of locaisData.
MapInit ==
    /\ alertOpen = ""
    /\ Lref = "null"
    /\ Lref' = "leaflet"
    /\ mapInstanceRef' = "map"
    /\ handler' = "useEffect"
    /\ UNCHANGED << locaisData, locais, userPos, loading, geolocation,
                    pending, alertOpen >>

\* A button that is never disabled.
ButtonAlwaysEnabled == FALSE

\* <button disabled={loading}>
ButtonDisabled == loading

\* requestUserLocation with setLoading(true) moved above the support check.
requestUserLocationLoadingFirst ==
    /\ alertOpen = ""
    /\ ~ButtonDisabled
    /\ pending < MaxPending
    /\ handler' = "click"
    /\ loading' = TRUE
    /\ IF ~geolocation
       THEN /\ alertOpen' = UnsupportedMsg
            /\ UNCHANGED pending
       ELSE /\ pending' = pending + 1
            /\ UNCHANGED alertOpen
    /\ UNCHANGED << locaisData, locais, userPos, Lref, mapInstanceRef,
                    geolocation >>

\* requestUserLocation, the onClick of the button, up to the call of
\* getCurrentPosition.
requestUserLocation ==
    /\ alertOpen = ""
    /\ ~ButtonDisabled
    /\ pending < MaxPending
    /\ handler' = "click"
    /\ IF ~geolocation
       THEN /\ alertOpen' = UnsupportedMsg
            /\ UNCHANGED << loading, pending >>
       ELSE /\ loading' = TRUE
            /\ pending' = pending + 1
            /\ UNCHANGED alertOpen
    /\ UNCHANGED << locaisData, locais, userPos, Lref, mapInstanceRef,
                    geolocation >>

\* The success callback of getCurrentPosition.  With Lref.current still null
\* L.divIcon throws a TypeError after setUserPos and setLoading, and the
\* ranking below it is never reached.
SuccessCallback(latitude, longitude) ==
    /\ alertOpen = ""
    /\ pending > 0
    /\ pending' = pending - 1
    /\ handler' = "success"
    /\ userPos' = << [lat |-> latitude, lng |-> longitude] >>
    /\ loading' = FALSE
    /\ IF Lref = "null"
       THEN UNCHANGED << locais, locaisData >>
       ELSE LET r == Rank(locaisData, latitude, longitude)
            IN  /\ locais' = r.novosLocais
                /\ locaisData' = r.locaisData
    /\ UNCHANGED << Lref, mapInstanceRef, geolocation, alertOpen >>

\* An error callback that leaves loading set.
ErrorKeepingLoading ==
    /\ alertOpen = ""
    /\ pending > 0
    /\ pending' = pending - 1
    /\ handler' = "error"
    /\ alertOpen' = ErrorMsg
    /\ UNCHANGED << locaisData, locais, userPos, loading, Lref,
                    mapInstanceRef, geolocation >>

\* An error callback that resets the list to the dataset.
ErrorResettingList ==
    /\ alertOpen = ""
    /\ pending > 0
    /\ pending' = pending - 1
    /\ handler' = "error"
    /\ loading' = FALSE
    /\ alertOpen' = ErrorMsg
    /\ locais' = locaisData
    /\ userPos' = << >>
    /\ UNCHANGED << locaisData, Lref, mapInstanceRef, geolocation >>

\* The error callback of getCurrentPosition (denied, unavailable, timeout).
ErrorCallback ==
    /\ alertOpen = ""
    /\ pending > 0
    /\ pending' = pending - 1
    /\ handler' = "error"
    /\ loading' = FALSE
    /\ alertOpen' = ErrorMsg
    /\ UNCHANGED << locaisData, locais, userPos, Lref, mapInstanceRef,
                    geolocation >>

\* The user closes the alert; the handler that opened it returns.
DismissAlert ==
    /\ alertOpen # ""
    /\ alertOpen' = ""
    /\ UNCHANGED << locaisData, locais, userPos, loading, Lref,
                    mapInstanceRef, geolocation, pending, handler >>

\* The geolocation capability answers a pending call.
GeolocationAnswers ==
    \/ ErrorCallback
    \/ \E c \in Coords : SuccessCallback(c[1], c[2])

Next ==
    \/ MapInit
    \/ requestUserLocation
    \/ \E c \in Coords : SuccessCallback(c[1], c[2])
    \/ ErrorCallback
    \/ DismissAlert

Spec == Init /\ [][Next]_vars

\* getCurrentPosition is given timeout: 10000, so one of its two callbacks is
\* eventually invoked for every call.
FairSpec == Spec /\ WF_vars(GeolocationAnswers)

----------------------------------------------------------------------------
\* Steps and states the properties speak of.

\* The step is a run of the success callback.
SuccessStep == pending' = pending - 1 /\ handler' = "success"

\* The step is a run of the error callback.
ErrorStep == pending' = pending - 1 /\ handler' = "error"

\* The step is a click on the button where navigator.geolocation is missing.
UnsupportedStep == alertOpen = "" /\ handler' = "click" /\ ~geolocation

\* The step is a click that calls getCurrentPosition.
RequestStep == pending' = pending + 1 /\ handler' = "click"

\* The step opens an error notice.
NoticeStep == alertOpen = "" /\ alertOpen' # ""

\* Some entry of the list carries a distancia.
Ranked == \E i \in 1..Len(locais) : locais[i].distancia # << >>

\* The entry l without its distancia.
Place(l) == [l EXCEPT !.distancia = << >>]

\* The list as ranked from the held userPos.
RankedFromUserPos ==
    Rank(locaisData, userPos[1].lat, userPos[1].lng).novosLocais

C2_Permutation ==
    /\ Len(locais) = Len(locaisData)
    /\ \A i \in 1..Len(locaisData) :
           Cardinality({j \in 1..Len(locais) : Place(locais[j]) = locaisData[i]}) = 1

\* A ranked list in another order than the dataset, with two places at the
\* same distance, shown after a failed request that followed the ranking.
C2_Witness ==
    /\ handler = "error"
    /\ Ranked
    /\ Len(locais) = 3
    /\ locais[1].nome # 1
    /\ locais[2].distancia = locais[3].distancia

\* C3: ranking never changes the static dataset: its order and fields stay
\* as at startup, and none of its entries gets a distancia.
C3_DatasetUnchanged ==
    /\ [][locaisData' = locaisData]_vars
    /\ [](\A i \in 1..Len(locaisData) : locaisData[i].distancia = << >>)

\* A ranking has been stored, from a position where no place of the dataset
\* lies first, and the list is in another order than the dataset.
C3_Witness ==
    /\ handler = "success"
    /\ Ranked
    /\ Len(locais) >= 2
    /\ locais[1].nome # 1
    /\ locais[1].distancia # << 0 >>

\* C4: at most one geolocation request is outstanding: a call is outstanding
\* only while loading is true, and while loading is true the request action
\* cannot be triggered.
C4_OneOutstanding ==
    /\ pending <= 1
    /\ pending = 1 => loading
    /\ loading => ~ENABLED requestUserLocation

\* A request outstanding after an earlier one has succeeded.
C4_Witness == pending = 1 /\ loading /\ userPos # << >>

\* C5: when a request fails (capability missing, or the error callback runs)
\* an error notice is shown, loading is false afterwards, and locais and
\* userPos are what they were before the request: the click that starts a
\* request, every step taken while it is outstanding other than the success
\* callback, and the failure itself leave them alone.
C5_FailureKeepsState ==
    [][ /\ ErrorStep =>
            /\ alertOpen' = ErrorMsg
            /\ loading' = FALSE
            /\ locais' = locais /\ userPos' = userPos
        /\ UnsupportedStep =>
            /\ alertOpen' = UnsupportedMsg
            /\ loading' = FALSE /\ pending' = 0
            /\ locais' = locais /\ userPos' = userPos
        /\ RequestStep => locais' = locais /\ userPos' = userPos
        /\ (pending = 1 /\ ~SuccessStep) => locais' = locais /\ userPos' = userPos
      ]_vars

\* A request failed after an earlier one had ranked the list: the notice is
\* open, loading is false, the ranked list and the position are still held.
C5_Witness ==
    /\ alertOpen = ErrorMsg
    /\ handler = "error"
    /\ ~loading
    /\ userPos # << >>
    /\ Ranked

\* C6: whenever the success callback runs, also before the map library has
\* been initialised, the UI ends ranked: loading false, userPos the position
\* returned, locais freshly ranked by distance from it.
C6_SuccessRanks ==
    handler = "success" =>
        /\ ~loading
        /\ userPos # << >>
        /\ locais = RankedFromUserPos

\* C7 as stated: every failure notice, the one for a missing geolocation
\* capability included, is reached from the requesting state (loading true).
C7_FailureFromRequesting == [][NoticeStep => loading]_vars

\* C7 amended: requesting is entered only by a click and left only by one of
\* the two callbacks; the notice of the error callback is reached from
\* requesting; the notice for a missing capability is reached from idle, with
\* loading false before and after and no request made.
C7_Transitions ==
    [][ /\ (~loading /\ loading') => RequestStep
        /\ (loading /\ ~loading') => (SuccessStep \/ ErrorStep)
        /\ NoticeStep =>
            \/ alertOpen' = ErrorMsg /\ ErrorStep /\ loading /\ ~loading'
            \/ /\ alertOpen' = UnsupportedMsg /\ UnsupportedStep
               /\ ~loading /\ ~loading' /\ pending = 0 /\ pending' = 0
      ]_vars

\* The notice for a missing capability is open and the UI is not loading.
C7_Witness == alertOpen = UnsupportedMsg /\ ~loading /\ handler = "click"

\* C8: every pending request resolves: once loading is true it eventually is
\* false again, given that the capability eventually runs one of its
\* callbacks; and only those callbacks clear loading.
C8_Resolves ==
    /\ loading ~> ~loading
    /\ [][(loading /\ ~loading') => (SuccessStep \/ ErrorStep)]_vars

\* A request was made and the error callback resolved it.
C8_Witness == handler = "error" /\ ~loading /\ pending = 0

\* C9: distanceKm of a point to itself is 0, so a place at the origin of the
\* ranking has distancia 0 and the list starts with a distancia of 0; no
\* distancia is negative.
C9_ZeroAtOrigin ==
    Ranked =>
        /\ \A i \in 1..Len(locais) :
               /\ locais[i].distancia[1] >= 0
               /\ (locais[i].lat = userPos[1].lat /\ locais[i].lng = userPos[1].lng)
                      => locais[i].distancia = << 0 >>
        /\ (\E i \in 1..Len(locais) :
               locais[i].lat = userPos[1].lat /\ locais[i].lng = userPos[1].lng)
              => locais[1].distancia = << 0 >>

\* The list is ranked from a position off the equator at which a place of the
\* dataset lies, and that place is not the first of the dataset.
C9_Witness ==
    /\ Ranked
    /\ userPos[1].lat # 0
    /\ Len(locais) >= 2
    /\ locais[1].nome # 1
    /\ locais[1].lat = userPos[1].lat /\ locais[1].lng = userPos[1].lng
    /\ locais[Len(locais)].distancia[1] > 0

\* C10: userPos is null exactly when no entry of locais carries a distancia,
\* and with userPos held every distancia is the distance from it.
C10_Consistent ==
    /\ (userPos = << >>) <=> ~Ranked
    /\ userPos # << >> =>
           \A i \in 1..Len(locais) :
               locais[i].distancia =
                   << DistanceTable[<< <<userPos[1].lat, userPos[1].lng>>,
                                       <<locais[i].lat, locais[i].lng>> >>] >>

====
